---------------------------- MODULE Spec2Model ----------------------------
(***************************************************************************)
(* Model of news_crawler.py: the polling loop main(), the URL collector,   *)
(* the article parser, and the two store operations save_news_to_mysql and *)
(* clean_old_news, over a MySQL table `news` without uniqueness            *)
(* constraint (a bag of rows).                                             *)
(*                                                                         *)
(* Texts are sequences of characters, " " being whitespace.  The clock is  *)
(* counted in days.  A connection's link is either up or lost; on a lost   *)
(* link every statement, commit and rollback raises, and the server        *)
(* discards the open transaction.  On a link that is up, a statement or a  *)
(* commit may fail with an SQL error, after which rollback succeeds.       *)
(* connection.close() does not raise on a connection that was not closed   *)
(* before.                                                                 *)
(***************************************************************************)
EXTENDS Integers, Sequences, FiniteSets, Bags, TLC

VARIABLES
    pc,          \* position of main(): connect, backoff, collect, loop, sleep, except, finally, exited
    connection,  \* main's local `connection`: 0 is None, else a connection id
    open,        \* ids of the connections that are open (created and not closed)
    up,          \* whether the link of `connection` is up
    news_urls,   \* main's local `news_urls`
    idx,         \* position of the for loop in news_urls (next item)
    store,       \* committed rows of table news: a bag
    now,         \* the clock, in days
    \* history of the current attempt (what an observer of the run would log)
    attempt,     \* outcome of the latest create_connection: none, failed, connected
    waited,      \* the delay slept since the latest create_connection: 0, 60 or 3600 seconds
    collected,   \* get_news_urls was called in this attempt
    parsed,      \* URLs parse_news was invoked on in this attempt, in order
    failedAt,    \* position in news_urls of the first item that failed in this attempt, 0 if none
    pruneCalls,  \* number of clean_old_news calls in this attempt
    usedOn,      \* connection ids that statements were issued on in this cycle
    lastSave,    \* the latest save_news_to_mysql call
    lastPrune,   \* the latest clean_old_news call
    snap         \* harness of the two-call scenario: the first call and the store after it

vars == <<pc, connection, open, up, news_urls, idx, store, now, attempt, waited,
          collected, parsed, failedAt, pruneCalls, usedOn, lastSave, lastPrune, snap>>

---------------------------------------------------------------------------
\* Bounds of the model

\* connection ids available
MaxConns == 3
\* the clock stops advancing at StartDay + MaxDays
MaxDays == 1
\* the clock at start
StartDay == 31

\* Program constants
days_to_keep == 30
BACKOFF_SECONDS == 60
CYCLE_SECONDS == 3600

ConnIds == 1..MaxConns
None == 0

---------------------------------------------------------------------------
\* Texts

Strip(s) ==
    LET lead == {i \in 1..Len(s) : s[i] # " "}
    IN  IF lead = {} THEN <<>>
        ELSE LET lo == CHOOSE i \in lead : \A j \in lead : i <= j
                 hi == CHOOSE i \in lead : \A j \in lead : i >= j
             IN  SubSeq(s, lo, hi)

\* ' '.join(parts)
RECURSIVE Join(_)
Join(parts) ==
    IF parts = <<>> THEN <<>>
    ELSE IF Len(parts) = 1 THEN parts[1]
    ELSE parts[1] \o <<" ">> \o Join(Tail(parts))

\* [p.text.strip() for p in content_elements if p.text.strip()]
RECURSIVE StrippedNonEmpty(_)
StrippedNonEmpty(ps) ==
    IF ps = <<>> THEN <<>>
    ELSE (IF Strip(ps[1]) # <<>> THEN <<Strip(ps[1])>> ELSE <<>>)
             \o StrippedNonEmpty(Tail(ps))

\* date_str.replace("송고시간", ""): the label is the token "L"
RECURSIVE RemoveLabel(_)
RemoveLabel(s) ==
    IF s = <<>> THEN <<>>
    ELSE (IF s[1] = "L" THEN <<>> ELSE <<s[1]>>) \o RemoveLabel(Tail(s))

\* The tokens that are a well-formed "%Y-%m-%d %H:%M" text, and the day each denotes
Stamps == {"d0", "d1", "d2"}
DayOf(tok) == CASE tok = "d0" -> 0 [] tok = "d1" -> 1 [] tok = "d2" -> 2

\* datetime.strptime(date_str, "%Y-%m-%d %H:%M").strftime(...): <<>> when it raises ValueError
Strptime(s) ==
    IF Len(s) = 1 /\ s[1] \in Stamps THEN <<DayOf(s[1])>> ELSE <<>>

---------------------------------------------------------------------------
\* The site

BASE_URL == "https://www.yna.co.kr"

\* hrefs of the listing page: relative, or absolute (starting with the origin)
HrefRelA == <<"/view/A">>
HrefAbsA == <<BASE_URL, "/view/A">>
HrefRelB == <<"/view/B">>

\* what the listing page may hold (the anchors the selector matches), in page order
Listings ==
    { <<>>, <<HrefRelA>>, <<HrefRelA, HrefAbsA>>, <<HrefRelB, HrefRelA>>,
      <<HrefAbsA, HrefRelB, HrefRelA>> }

\* url.startswith('http')
StartsWithHttp(href) == href[1] = BASE_URL

\* lines 64-66
Resolve(href) == IF StartsWithHttp(href) THEN href ELSE <<BASE_URL>> \o href

\* the orders list(set) may give
Orders(S) ==
    {s \in [1..Cardinality(S) -> S] : \A i, j \in 1..Cardinality(S) : s[i] = s[j] => i = j}

\* get_news_urls: ok is FALSE when the request or the parse raised
get_news_urls(ok, listing) ==
    IF ~ok THEN {<<>>}
    ELSE Orders({Resolve(listing[i]) : i \in 1..Len(listing)})

\* Article pages: the texts of the elements each selector matches
\*   h1: "div.content03 header.title-article01 h1.tit",  p: "article.story-news.article p",
\*   time: "p.update-time"
Page(h1, p, t) == [h1 |-> h1, p |-> p, time |-> t]

Pages ==
    { Page(<< <<" ", "a", " ">> >>, << <<"b", " ">>, <<" ">>, <<"c">> >>, << <<"L", " ", "d0">> >>),
      Page(<< <<"a">> >>,           << <<"b", " ">>, <<"c">> >>,          << <<"d1", " ">> >>),
      Page(<< <<"a">> >>,           << <<" ", "b">>, <<"c">> >>,          << <<"L", "d2">> >>),
      Page(<< <<" ">> >>,           << <<"b">>, <<"c">> >>,               << <<"L", " ", "d1">> >>),
      Page(<<>>,                    << <<"b">> >>,                        << <<"d1">> >>),
      Page(<< <<"a">> >>,           <<>>,                                 << <<"d1">> >>),
      Page(<< <<"a">> >>,           << <<" ">>, <<>> >>,                  << <<"d1">> >>),
      Page(<< <<"a">> >>,           << <<"b">> >>,                        <<>>),
      Page(<< <<"a">> >>,           << <<"b">> >>,                        << <<"L", "x", "d1">> >>) }

\* parse_news: <<>> is None, else <<news_data>>; ok is FALSE when requests.get raised
parse_news(url, ok, page) ==
    IF ~ok THEN <<>>
    ELSE IF page.h1 = <<>> THEN <<>>                      \* "Title not found"
    ELSE LET title == Strip(page.h1[1])
             content == Join(StrippedNonEmpty(page.p))
         IN  IF page.p = <<>> THEN <<>>                   \* no content element
             ELSE IF content = <<>> THEN <<>>              \* content empty
             ELSE IF page.time = <<>> THEN <<>>            \* no date element
             ELSE LET date_str == Strip(RemoveLabel(Strip(page.time[1])))
                      publish_time == Strptime(date_str)
                  IN  IF publish_time = <<>> THEN <<>>     \* date does not parse
                      ELSE << [title |-> title, content |-> content,
                               original_url |-> url, publish_time |-> publish_time[1]] >>

\* the URLs the listing can yield
UrlA == Resolve(HrefRelA)
UrlB == Resolve(HrefRelB)
Urls == {UrlA, UrlB}

\* everything parse_news may return: the request raises, or the site serves one of Pages
Articles == {parse_news(url, ok, page) : url \in Urls, ok \in BOOLEAN, page \in Pages}

\* what parse_news may return for url
Fetched(url) == {a \in Articles : a = <<>> \/ a[1].original_url = url}

---------------------------------------------------------------------------
\* The store

Row(news_data, current_time) ==
    [news_title |-> news_data.title, news_content |-> news_data.content,
     original_url |-> news_data.original_url, crawl_time |-> current_time,
     publish_time |-> news_data.publish_time]

\* SELECT COUNT(*) FROM news WHERE original_url = %s
CountByUrl(table, url) ==
    BagCardinality([r \in {x \in BagToSet(table) : x.original_url = url} |-> table[r]])

\* A faulty variant of Exists: the check never finds the row
ExistsNever(table, url) == FALSE

\* lines 137-139: exists = cursor.fetchone()[0] > 0
Exists(table, url) == CountByUrl(table, url) > 0

\* What may go wrong in one call: the statement that fails ("none": nothing fails), whether
\* the failure is the loss of the link, and, for a link lost during commit, whether the
\* server had committed
Fault(at, drop, acked) == [at |-> at, drop |-> drop, acked |-> acked]
NoFault == Fault("none", FALSE, FALSE)
CommitFaults ==
    { Fault("commit", FALSE, FALSE), Fault("commit", TRUE, FALSE), Fault("commit", TRUE, TRUE) }
SaveFaults ==
    { NoFault,
      Fault("select", FALSE, FALSE), Fault("select", TRUE, FALSE),
      Fault("insert", FALSE, FALSE), Fault("insert", TRUE, FALSE) } \cup CommitFaults
CleanFaults ==
    { NoFault, Fault("delete", FALSE, FALSE), Fault("delete", TRUE, FALSE) } \cup CommitFaults

\* result of a store call: the committed table, the link, whether the call raised, the
\* statement that failed, and the number of rows the call inserted
Result(table, link, raised, failed, inserted) ==
    [store |-> table, up |-> link, raised |-> raised, failed |-> failed, inserted |-> inserted]

\* A faulty variant of SaveExcept: the handler re-raises after the rollback
SaveExceptReraise(table, link, failed, inserted) ==
    Result(table, link, TRUE, failed, inserted)

\* lines 168-170: log, connection.rollback(); the rollback raises iff the link is lost
SaveExcept(table, link, failed, inserted) ==
    Result(table, link, ~link, failed, inserted)

\* A faulty variant of AlreadyStored: the existing row is updated in place
AlreadyStoredUpdate(table, news_data, current_time) ==
    LET others == {x \in BagToSet(table) : x.original_url # news_data.original_url}
    IN  Result([r \in others |-> table[r]] (+) SetToBag({Row(news_data, current_time)}),
               TRUE, FALSE, "none", 0)

\* lines 141-143: log and return
AlreadyStored(table, news_data, current_time) ==
    Result(table, TRUE, FALSE, "none", 0)

\* lines 132-170
save_news_to_mysql(table, link, news_data, current_time, f) ==
    LET fails(stmt) == ~link \/ f.at = stmt
        after(stmt) == link /\ ~(f.at = stmt /\ f.drop)
        added == table (+) SetToBag({Row(news_data, current_time)})
    IN  IF fails("select") THEN SaveExcept(table, after("select"), "select", 0)
        ELSE IF Exists(table, news_data.original_url)
             THEN AlreadyStored(table, news_data, current_time)
        ELSE IF fails("insert") THEN SaveExcept(table, after("insert"), "insert", 0)
        ELSE IF fails("commit")
             THEN IF f.drop /\ f.acked
                  THEN SaveExcept(added, FALSE, "commit", 1)
                  ELSE SaveExcept(table, after("commit"), "commit", 0)
        ELSE Result(added, TRUE, FALSE, "none", 1)

\* A faulty variant of IsOld: the comparison includes the boundary
IsOldInclusive(r, t, d) == r.publish_time <= t - d

\* line 178: publish_time < DATE_SUB(NOW(), INTERVAL d DAY)
IsOld(r, t, d) == r.publish_time < t - d

\* lines 183-185: log, connection.rollback(); the rollback raises iff the link is lost
CleanExcept(table, link, failed) == Result(table, link, ~link, failed, 0)

\* lines 172-185
clean_old_news(table, link, t, d, f) ==
    LET fails(stmt) == ~link \/ f.at = stmt
        after(stmt) == link /\ ~(f.at = stmt /\ f.drop)
        kept == [r \in {x \in BagToSet(table) : ~IsOld(x, t, d)} |-> table[r]]
    IN  IF fails("delete") THEN CleanExcept(table, after("delete"), "delete")
        ELSE IF fails("commit")
             THEN IF f.drop /\ f.acked
                  THEN CleanExcept(kept, FALSE, "commit")
                  ELSE CleanExcept(table, after("commit"), "commit")
        ELSE Result(kept, TRUE, FALSE, "none", 0)

\* what a call of save_news_to_mysql did: the statement that failed, whether the call raised,
\* the rows it inserted, and the link after it
NoCall == [called |-> FALSE, failed |-> "none", raised |-> FALSE, inserted |-> 0, link |-> FALSE]
Call(res) == [called |-> TRUE, failed |-> res.failed, raised |-> res.raised,
              inserted |-> res.inserted, link |-> res.up]


NoPrune == [called |-> FALSE, failed |-> "none", raised |-> FALSE, removed |-> 0]

---------------------------------------------------------------------------
\* main()

TypeOK ==
    /\ pc \in {"connect", "backoff", "collect", "loop", "sleep", "except", "finally", "exited",
               "first", "second", "done"}
    /\ connection \in ConnIds \cup {None}
    /\ open \subseteq ConnIds
    /\ up \in BOOLEAN
    /\ idx \in 1..(Len(news_urls) + 1)
    /\ IsABag(store)
    /\ now \in StartDay..(StartDay + MaxDays)
    /\ attempt \in {"none", "failed", "connected"}
    /\ waited \in {0, BACKOFF_SECONDS, CYCLE_SECONDS}
    /\ collected \in BOOLEAN
    /\ failedAt \in 0..Len(news_urls)
    /\ pruneCalls \in Nat
    /\ usedOn \subseteq ConnIds \cup {None}

\* rows a run before this one may have left in the table
InitStores ==
    { EmptyBag,
      SetToBag({[news_title |-> <<"a">>, news_content |-> <<"b">>,
                 original_url |-> Resolve(HrefRelA), crawl_time |-> StartDay,
                 publish_time |-> 1]}) }

Init ==
    /\ pc = "connect"
    /\ connection = None
    /\ open = {}
    /\ up = FALSE
    /\ news_urls = <<>>
    /\ idx = 1
    /\ store \in InitStores
    /\ now = StartDay
    /\ attempt = "none"
    /\ waited = 0
    /\ collected = FALSE
    /\ parsed = <<>>
    /\ failedAt = 0
    /\ pruneCalls = 0
    /\ usedOn = {}
    /\ lastSave = NoCall
    /\ lastPrune = NoPrune
    /\ snap = [store |-> EmptyBag, save |-> NoCall]

\* the object pymysql.connect returns: a connection that is none of the open ones nor the
\* one `connection` still refers to
NewConn ==
    LET free == ConnIds \ (open \cup {connection})
    IN  CHOOSE i \in free : \A j \in free : i <= j

\* lines 36-51
create_connection(ok) == IF ok THEN NewConn ELSE None

\* time.sleep: the clock may pass into the next day
Clock(t) == t \in {now, now + 1} /\ t <= StartDay + MaxDays

\* line 193-197
CreateConnection ==
    /\ pc = "connect"
    /\ \E ok \in BOOLEAN :
         /\ ok => ConnIds \ (open \cup {connection}) # {}
         /\ connection' = create_connection(ok)
         /\ open' = IF ok THEN open \cup {connection'} ELSE open
         /\ up' = ok
         /\ attempt' = IF ok THEN "connected" ELSE "failed"
         /\ pc' = IF ok THEN "collect" ELSE "backoff"
    /\ waited' = 0
    /\ collected' = FALSE
    /\ parsed' = <<>>
    /\ failedAt' = 0
    /\ pruneCalls' = 0
    /\ usedOn' = {}
    /\ lastSave' = NoCall
    /\ lastPrune' = NoPrune
    /\ UNCHANGED <<news_urls, idx, store, now, snap>>

\* lines 195-197: time.sleep(60); continue
Backoff ==
    /\ pc = "backoff"
    /\ waited' = BACKOFF_SECONDS
    /\ \E t \in {now, now + 1} : Clock(t) /\ now' = t
    /\ pc' = "finally"
    /\ UNCHANGED <<connection, open, up, news_urls, idx, store, attempt, collected,
                   parsed, failedAt, pruneCalls, usedOn, lastSave, lastPrune, snap>>

\* line 199
GetNewsUrls ==
    /\ pc = "collect"
    /\ \E ok \in BOOLEAN, listing \in Listings :
         \E urls \in get_news_urls(ok, listing) : news_urls' = urls
    /\ idx' = 1
    /\ collected' = TRUE
    /\ pc' = "loop"
    /\ UNCHANGED <<connection, open, up, store, now, attempt, waited, parsed, failedAt,
                   pruneCalls, usedOn, lastSave, lastPrune, snap>>

\* A faulty variant of LoopDone: the loop ends after its first item
LoopDoneEarly == idx > Len(news_urls) \/ idx > 1

\* line 201: the for loop is exhausted
LoopDone == idx > Len(news_urls)

\* A faulty variant of AfterItem: an error of the item leaves the loop
AfterItemAbort(raised) == IF raised THEN "except" ELSE "loop"

\* lines 206-210: time.sleep(1), or the handler of the item's error and continue
AfterItem(raised) == "loop"

\* lines 201-210: one iteration of the for loop
ProcessUrl ==
    /\ pc = "loop"
    /\ ~LoopDone
    /\ \E news_data \in Fetched(news_urls[idx]), f \in SaveFaults :
         /\ news_data = <<>> => f = NoFault
         /\ LET url == news_urls[idx]
                res == IF news_data = <<>>
                       THEN Result(store, up, FALSE, "none", 0)
                       ELSE save_news_to_mysql(store, up, news_data[1], now, f)
                itemFailed == news_data = <<>> \/ res.failed # "none"
            IN  /\ parsed' = Append(parsed, url)
                /\ store' = res.store
                /\ up' = res.up
                /\ lastSave' = IF news_data = <<>> THEN NoCall ELSE Call(res)
                /\ usedOn' = IF news_data = <<>> THEN usedOn ELSE usedOn \cup {connection}
                /\ failedAt' = IF failedAt = 0 /\ itemFailed THEN idx ELSE failedAt
                /\ pc' = AfterItem(res.raised)
    /\ idx' = idx + 1
    /\ UNCHANGED <<connection, open, news_urls, now, attempt, waited, collected,
                   pruneCalls, lastPrune, snap>>

\* line 213: clean_old_news(connection); an error of its rollback leaves the try block
CleanOldNews ==
    /\ pc = "loop"
    /\ LoopDone
    /\ \E f \in CleanFaults :
         LET res == clean_old_news(store, up, now, days_to_keep, f)
         IN  /\ store' = res.store
             /\ up' = res.up
             /\ lastPrune' = [called |-> TRUE, failed |-> res.failed, raised |-> res.raised,
                              removed |-> BagCardinality(store) - BagCardinality(res.store)]
             /\ pc' = IF res.raised THEN "except" ELSE "sleep"
    /\ pruneCalls' = pruneCalls + 1
    /\ usedOn' = usedOn \cup {connection}
    /\ UNCHANGED <<connection, open, news_urls, idx, now, attempt, waited, collected,
                   parsed, failedAt, lastSave, snap>>

\* lines 215-216: time.sleep(3600)
Sleep ==
    /\ pc = "sleep"
    /\ waited' = CYCLE_SECONDS
    /\ \E t \in {now, now + 1} : Clock(t) /\ now' = t
    /\ pc' = "finally"
    /\ UNCHANGED <<connection, open, up, news_urls, idx, store, attempt, collected,
                   parsed, failedAt, pruneCalls, usedOn, lastSave, lastPrune, snap>>

\* A faulty variant of TopLevelExcept: the error leaves main
TopLevelExceptExit ==
    /\ pc = "except"
    /\ pc' = "exited"
    /\ UNCHANGED <<connection, open, up, news_urls, idx, store, now, attempt, waited,
                   collected, parsed, failedAt, pruneCalls, usedOn, lastSave, lastPrune, snap>>

\* lines 218-219: except Exception: log
TopLevelExcept ==
    /\ pc = "except"
    /\ pc' = "finally"
    /\ UNCHANGED <<connection, open, up, news_urls, idx, store, now, attempt, waited,
                   collected, parsed, failedAt, pruneCalls, usedOn, lastSave, lastPrune, snap>>

\* A faulty variant of Finally: the connection is closed only when the cycle ended without error
FinallyNoCloseOnError ==
    /\ pc = "finally"
    /\ open' = IF connection # None /\ up THEN open \ {connection} ELSE open
    /\ up' = FALSE
    /\ usedOn' = {}
    /\ pc' = "connect"
    /\ UNCHANGED <<connection, news_urls, idx, store, now, attempt, waited, collected,
                   parsed, failedAt, pruneCalls, lastSave, lastPrune, snap>>

\* lines 221-223: finally: close the connection if there is one; then the next iteration
Finally ==
    /\ pc = "finally"
    /\ open' = IF connection # None THEN open \ {connection} ELSE open
    /\ up' = FALSE
    /\ usedOn' = {}
    /\ pc' = "connect"
    /\ UNCHANGED <<connection, news_urls, idx, store, now, attempt, waited, collected,
                   parsed, failedAt, pruneCalls, lastSave, lastPrune, snap>>

\* lines 187-223
Next ==
    \/ CreateConnection
    \/ Backoff
    \/ GetNewsUrls
    \/ ProcessUrl
    \/ CleanOldNews
    \/ Sleep
    \/ TopLevelExcept
    \/ Finally

Spec == Init /\ [][Next]_vars

\* main is one thread that is never blocked for ever: sleeps end, requests and queries return
FairSpec == Spec /\ WF_vars(Next)

---------------------------------------------------------------------------
\* Two calls of save_news_to_mysql on one connection, with records of one URL

\* stores without a row for UrlA
TwiceStores ==
    { EmptyBag } \cup { SetToBag({Row(nd[1], StartDay)}) : nd \in Fetched(UrlB) \ {<<>>} }

TwiceInit ==
    /\ pc = "first"
    /\ connection = 1
    /\ open = {1}
    /\ up = TRUE
    /\ news_urls = <<>>
    /\ idx = 1
    /\ store \in TwiceStores
    /\ now = StartDay
    /\ attempt = "connected"
    /\ waited = 0
    /\ collected = FALSE
    /\ parsed = <<>>
    /\ failedAt = 0
    /\ pruneCalls = 0
    /\ usedOn = {}
    /\ lastSave = NoCall
    /\ lastPrune = NoPrune
    /\ snap = [store |-> EmptyBag, save |-> NoCall]

\* save_news_to_mysql(connection, news_data) for some record of UrlA
SaveCall ==
    /\ \E news_data \in Fetched(UrlA) \ {<<>>}, f \in SaveFaults :
         LET res == save_news_to_mysql(store, up, news_data[1], now, f)
         IN  /\ store' = res.store
             /\ up' = res.up
             /\ lastSave' = Call(res)
    /\ \E t \in {now, now + 1} : Clock(t) /\ now' = t
    /\ usedOn' = usedOn \cup {connection}

SaveFirst ==
    /\ pc = "first"
    /\ SaveCall
    /\ snap' = [store |-> store', save |-> lastSave']
    /\ pc' = "second"
    /\ UNCHANGED <<connection, open, news_urls, idx, attempt, waited, collected, parsed,
                   failedAt, pruneCalls, lastPrune>>

SaveSecond ==
    /\ pc = "second"
    /\ SaveCall
    /\ pc' = "done"
    /\ UNCHANGED <<connection, open, news_urls, idx, attempt, waited, collected, parsed,
                   failedAt, pruneCalls, lastPrune, snap>>

TwiceNext == SaveFirst \/ SaveSecond

TwiceSpec == TwiceInit /\ [][TwiceNext]_vars

---------------------------------------------------------------------------
\* Properties

\* C1: the table never holds two rows with one original_url
UniqueUrl ==
    \A r \in BagToSet(store) : CountByUrl(store, r.original_url) = 1

\* a later call found the URL stored and skipped, with both URLs stored
UniqueUrlWitness ==
    /\ pc = "loop"
    /\ lastSave.called /\ lastSave.failed = "none" /\ lastSave.inserted = 0
    /\ BagCardinality(store) = 2

\* C2, as stated: after two calls for one URL the table holds exactly one row for it, and the
\* second call added no row and changed none
TwiceExactlyOne ==
    pc = "done" =>
        /\ CountByUrl(store, UrlA) = 1
        /\ lastSave.inserted = 0
        /\ store = snap.store

\* C2, amended: after two calls for one URL the table holds at most one row for it; when the
\* first call committed its insert the table holds exactly one and the second call added no
\* row and changed none; when the first call stored nothing and the second call ran without
\* error, the second call inserted the one row
TwiceAtMostOne ==
    pc = "done" =>
        /\ CountByUrl(store, UrlA) <= 1
        /\ snap.save.inserted = 1 =>
               /\ CountByUrl(store, UrlA) = 1
               /\ lastSave.inserted = 0
               /\ store = snap.store
        /\ (snap.save.inserted = 0 /\ lastSave.failed = "none") =>
               /\ CountByUrl(store, UrlA) = 1
               /\ lastSave.inserted = 1
               /\ snap.save.failed # "none"

\* both calls ran without error: the first inserted, the second skipped
TwiceWitness ==
    /\ pc = "done"
    /\ snap.save.failed = "none" /\ snap.save.inserted = 1
    /\ lastSave.failed = "none" /\ lastSave.inserted = 0
    /\ CountByUrl(store, UrlA) = 1

\* C3, as stated: a record is complete or absent, so no stored row has an empty title or an
\* empty content
StoredRecordsComplete ==
    \A r \in BagToSet(store) : r.news_title # <<>> /\ r.news_content # <<>>

\* C4: at most one connection is open; none is open when create_connection is called; within
\* a cycle the open connection is the one the cycle created, and statements run only on it
ConnectionClosedEachCycle ==
    /\ Cardinality(open) <= 1
    /\ pc \in {"connect", "backoff"} => open = {}
    /\ pc \in {"collect", "loop", "sleep", "except"} => open = {connection}
    /\ usedOn \subseteq open
    /\ usedOn \subseteq {connection} \ {None}

\* a cycle that ended through the top-level handler, its connection closed
ClosedAfterErrorWitness ==
    /\ pc = "connect"
    /\ attempt = "connected" /\ lastPrune.raised
    /\ connection # None /\ open = {}

\* C5: main never exits, and after an error that reaches the top-level handler, as after
\* every cycle, create_connection is called again
MainKeepsRunning ==
    /\ [](pc # "exited")
    /\ (pc = "except") ~> (pc = "connect")
    /\ []<>(pc = "connect")

\* errors in the processing of a URL and in the prune, and main is back at create_connection
KeepsRunningWitness ==
    /\ pc = "connect"
    /\ lastSave.raised /\ lastPrune.raised /\ failedAt = 1

\* C6: while in the loop parse_news has been invoked on every URL before the position of the
\* loop, whatever failed; the loop is left only by the call of clean_old_news, with
\* parse_news invoked on every collected URL
BatchNeverAborted ==
    /\ pc = "loop" => parsed = SubSeq(news_urls, 1, idx - 1) /\ pruneCalls = 0
    /\ (pc \in {"sleep", "except"} \/ (pc \in {"finally", "connect"} /\ attempt = "connected"))
          => parsed = news_urls /\ pruneCalls = 1

\* the first URL failed, the second was parsed, and the prune was reached
BatchWitness ==
    /\ failedAt = 1 /\ Len(news_urls) = 2 /\ parsed = news_urls
    /\ lastSave.called /\ lastSave.inserted = 1
    /\ pruneCalls = 1

\* C7, as stated: a failure of the existence query reaches the caller of save_news_to_mysql
ExistenceFailurePropagates ==
    (lastSave.called /\ lastSave.failed = "select") => lastSave.raised

\* C7, amended: when the existence query fails no row is inserted, and save_news_to_mysql
\* raises only when its rollback raises (the link is lost); otherwise it returns normally
ExistenceFailureHandled ==
    (lastSave.called /\ lastSave.failed = "select") =>
        /\ lastSave.inserted = 0
        /\ lastSave.raised <=> ~lastSave.link

\* the existence query failed and save_news_to_mysql returned normally
ExistenceFailureWitness ==
    /\ lastSave.called /\ lastSave.failed = "select" /\ ~lastSave.raised
    /\ pc = "loop" /\ idx = 2

\* C8: clean_old_news is called at most once per attempt, exactly once in a cycle that got a
\* connection and never in one that did not; when it is called parse_news has been invoked
\* on every collected URL and the loop is not entered again; create_connection is called
\* only with the connection of the cycle before closed
PruneOncePerCycle ==
    /\ pruneCalls <= 1
    /\ (pc \in {"finally", "connect"} /\ attempt = "connected") => pruneCalls = 1
    /\ attempt = "failed" => pruneCalls = 0 /\ parsed = <<>>
    /\ pruneCalls = 1 => pc # "loop" /\ pc # "collect" /\ Len(parsed) = Len(news_urls)
    /\ pc = "connect" => open = {}

\* a cycle over two URLs that pruned once
PruneOnceWitness ==
    /\ pc = "sleep" /\ pruneCalls = 1 /\ Len(parsed) = 2
    /\ lastPrune.failed = "none"

\* C9, as stated: every create_connection after the first follows a delay: 60 s after an
\* attempt that did not connect (and ran no collect, insert or prune), 3600 s after a cycle
\* that connected
WaitsBeforeEveryAttempt ==
    (pc = "connect" /\ attempt # "none") =>
        /\ attempt = "failed" =>
               waited = BACKOFF_SECONDS /\ ~collected /\ parsed = <<>> /\ pruneCalls = 0
        /\ attempt = "connected" => waited = CYCLE_SECONDS

\* C10: a call of clean_old_news removes only rows whose publish_time is strictly earlier than
\* now - days_to_keep and leaves the others as they are; when it meets no error no such row
\* remains; when the DELETE fails the table is as before
PruneFrame ==
    [][ pruneCalls' = pruneCalls + 1 =>
          /\ \A r \in BagToSet(store) :
                /\ CopiesIn(r, store') <= CopiesIn(r, store)
                /\ ~(r.publish_time < now - days_to_keep)
                      => CopiesIn(r, store') = CopiesIn(r, store)
          /\ BagToSet(store') \subseteq BagToSet(store)
          /\ lastPrune'.failed = "none" =>
                \A r \in BagToSet(store') : ~(r.publish_time < now - days_to_keep)
          /\ lastPrune'.failed = "delete" => store' = store
      ]_vars

\* a prune that removed an old row crawled today and kept a row at the edge of the window
PruneWitness ==
    /\ pc = "sleep"
    /\ lastPrune.failed = "none" /\ lastPrune.removed > 0
    /\ \E r \in BagToSet(store) : r.publish_time = now - days_to_keep

============================================================================
